---- MODULE Spec2Model ----
(***************************************************************************)
(* Model of the request gate of the generate-features edge function:       *)
(* the security utilities (rate limiter, threat scanner, validators,       *)
(* credential decoding) and the serve handler that orchestrates them.      *)
(*                                                                         *)
(* Time is in milliseconds.  A handler runs without interruption between   *)
(* two awaits; each action below is one such run.                          *)
(***************************************************************************)
EXTENDS Integers, Sequences, FiniteSets, TLC

VARIABLES
    now,             \* Date.now()
    rateLimitStore,  \* the module-level Map userId -> RateLimitEntry
    lastIndex,       \* the lastIndex of each module-level /g regular expression
    slots,           \* the handler invocations (one record per invocation slot)
    apiKey,          \* whether Deno.env.get('LOVABLE_API_KEY') yields a key
    lastAdmit,       \* history: the time of each caller's latest admitted request
    obs,             \* history: an observer counting one caller's admissions
    call             \* the latest direct call of an exported function, with its result

vars == <<now, rateLimitStore, lastIndex, slots, apiKey, lastAdmit, obs, call>>

----------------------------------------------------------------------------
(* Policy constants *)

RATE_LIMIT_CONFIG ==
    [ maxRequests        |-> 10,
      windowMs           |-> 60000,
      minRequestInterval |-> 2000,
      maxPromptLength    |-> 5000,
      maxPayloadSize     |-> 50000,
      requestTimeout     |-> 30000 ]

CleanupThreshold == 10000
MinPromptLength == 10
RawBodyLimit == 50000
FetchTimeoutMs == 30000
HourMs == 3600000
HourlyLimit == 60

(* Bounds of the model *)
MaxTime == 62000
MaxTimeRoll == 72000
MaxTimeGate == 4000
MaxTimeConc == 20000
MaxTimeHdr == 4000
MaxTimeUp == 30000
MaxTimeSweep == 120000
MaxTimeRefund == 62000
MaxTimePrompt == 4000
MaxLenPure == 3
MaxTimeHour == 380000
MaxTimeLive == 45000

TooFrequent == "Too many requests in quick succession. Please wait before retrying."
QuotaExceeded == "Rate limit exceeded. You can make 10 requests per minute."
NoReason == "none"

----------------------------------------------------------------------------
(* Rate limiter *)

CeilDiv(a, b) == 0 - ((0 - a) \div b)

StoreHas(store, userId) == userId \in DOMAIN store

StoreSet(store, userId, entry) ==
    [k \in (DOMAIN store) \cup {userId} |-> IF k = userId THEN entry ELSE store[k]]

\* a mutant: the sweep takes the entries that are at their reset time too
CleanupAt_sweepAtReset(store, t, threshold) ==
    IF Cardinality(DOMAIN store) > threshold
    THEN [k \in {x \in DOMAIN store : ~(t >= store[x].resetAt)} |-> store[k]]
    ELSE store

\* the sweep at the top of checkRateLimit, for a table larger than the
\* threshold: entries past their reset time go
CleanupAt(store, t, threshold) ==
    IF Cardinality(DOMAIN store) > threshold
    THEN [k \in {x \in DOMAIN store : ~(t > store[x].resetAt)} |-> store[k]]
    ELSE store

Cleanup(store, t) == CleanupAt(store, t, CleanupThreshold)

FreshEntry(t) ==
    [count |-> 1, resetAt |-> t + RATE_LIMIT_CONFIG.windowMs, lastRequest |-> t]

Allowed(store) ==
    [allowed |-> TRUE, retryAfter |-> 0, reason |-> NoReason, store |-> store]

Rejected(store, retryAfter, reason) ==
    [allowed |-> FALSE, retryAfter |-> retryAfter, reason |-> reason, store |-> store]

\* a mutant: the quota test lets the count reach maxRequests + 1
checkRateLimit_offByOne(store, userId, t) ==
    LET swept == Cleanup(store, t) IN
    IF ~StoreHas(store, userId)
    THEN Allowed(StoreSet(swept, userId, FreshEntry(t)))
    ELSE LET entry == store[userId]
             timeSinceLastRequest == t - entry.lastRequest
         IN
         IF t > entry.resetAt
         THEN Allowed(StoreSet(swept, userId, FreshEntry(t)))
         ELSE IF timeSinceLastRequest < RATE_LIMIT_CONFIG.minRequestInterval
         THEN Rejected(swept,
                  CeilDiv(RATE_LIMIT_CONFIG.minRequestInterval - timeSinceLastRequest, 1000),
                  TooFrequent)
         ELSE IF entry.count > RATE_LIMIT_CONFIG.maxRequests
         THEN Rejected(swept, CeilDiv(entry.resetAt - t, 1000), QuotaExceeded)
         ELSE Allowed(StoreSet(swept, userId,
                  [entry EXCEPT !.count = entry.count + 1, !.lastRequest = t]))

\* a mutant: the quota test comes before the interval test
checkRateLimit_quotaFirst(store, userId, t) ==
    LET swept == Cleanup(store, t) IN
    IF ~StoreHas(store, userId)
    THEN Allowed(StoreSet(swept, userId, FreshEntry(t)))
    ELSE LET entry == store[userId]
             timeSinceLastRequest == t - entry.lastRequest
         IN
         IF t > entry.resetAt
         THEN Allowed(StoreSet(swept, userId, FreshEntry(t)))
         ELSE IF entry.count >= RATE_LIMIT_CONFIG.maxRequests
         THEN Rejected(swept, CeilDiv(entry.resetAt - t, 1000), QuotaExceeded)
         ELSE IF timeSinceLastRequest < RATE_LIMIT_CONFIG.minRequestInterval
         THEN Rejected(swept,
                  CeilDiv(RATE_LIMIT_CONFIG.minRequestInterval - timeSinceLastRequest, 1000),
                  TooFrequent)
         ELSE Allowed(StoreSet(swept, userId,
                  [entry EXCEPT !.count = entry.count + 1, !.lastRequest = t]))

\* a mutant: an admitted request within a running window does not restart
\* the interval
checkRateLimit_keepLastRequest(store, userId, t) ==
    LET swept == Cleanup(store, t) IN
    IF ~StoreHas(store, userId)
    THEN Allowed(StoreSet(swept, userId, FreshEntry(t)))
    ELSE LET entry == store[userId]
             timeSinceLastRequest == t - entry.lastRequest
         IN
         IF t > entry.resetAt
         THEN Allowed(StoreSet(swept, userId, FreshEntry(t)))
         ELSE IF timeSinceLastRequest < RATE_LIMIT_CONFIG.minRequestInterval
         THEN Rejected(swept,
                  CeilDiv(RATE_LIMIT_CONFIG.minRequestInterval - timeSinceLastRequest, 1000),
                  TooFrequent)
         ELSE IF entry.count >= RATE_LIMIT_CONFIG.maxRequests
         THEN Rejected(swept, CeilDiv(entry.resetAt - t, 1000), QuotaExceeded)
         ELSE Allowed(StoreSet(swept, userId,
                  [entry EXCEPT !.count = entry.count + 1]))

\* checkRateLimit(userId) at time t with the sweep's threshold as a
\* parameter; the result carries the store it leaves
checkRateLimitAt(store, userId, t, threshold) ==
    LET swept == CleanupAt(store, t, threshold) IN
    IF ~StoreHas(store, userId)
    THEN Allowed(StoreSet(swept, userId, FreshEntry(t)))
    ELSE LET entry == store[userId]
             timeSinceLastRequest == t - entry.lastRequest
         IN
         IF t > entry.resetAt
         THEN Allowed(StoreSet(swept, userId, FreshEntry(t)))
         ELSE IF timeSinceLastRequest < RATE_LIMIT_CONFIG.minRequestInterval
         THEN Rejected(swept,
                  CeilDiv(RATE_LIMIT_CONFIG.minRequestInterval - timeSinceLastRequest, 1000),
                  TooFrequent)
         ELSE IF entry.count >= RATE_LIMIT_CONFIG.maxRequests
         THEN Rejected(swept, CeilDiv(entry.resetAt - t, 1000), QuotaExceeded)
         ELSE Allowed(StoreSet(swept, userId,
                  [entry EXCEPT !.count = entry.count + 1, !.lastRequest = t]))

\* checkRateLimit(userId) at time t
checkRateLimit(store, userId, t) ==
    checkRateLimitAt(store, userId, t, CleanupThreshold)

\* a mutant: the headers of a caller without an entry, for every caller
RateLimitRemaining_noEntry(store, userId) ==
    RATE_LIMIT_CONFIG.maxRequests

\* getRateLimitHeaders: the X-RateLimit-Remaining value
RateLimitRemaining(store, userId) ==
    IF ~StoreHas(store, userId)
    THEN RATE_LIMIT_CONFIG.maxRequests
    ELSE IF RATE_LIMIT_CONFIG.maxRequests - store[userId].count > 0
         THEN RATE_LIMIT_CONFIG.maxRequests - store[userId].count
         ELSE 0

----------------------------------------------------------------------------
(* Text.  A string is a sequence of tokens, read as their concatenation.   *)
(* The vocabulary holds one benign word, the blank, tab or newline, the     *)
(* null byte, one other control character, one sample match for each of    *)
(* four patterns, and the two halves of one of them; no pattern matches    *)
(* across a token boundary other than the one between the two halves.      *)

Word == "increase"
Blank == " "
Ctl == "<0x01>"
TInj == "ignore all previous instructions"
TSsrf == "http://127.0.0.1/admin"
TScript == "<script>alert(1)</script>"
TJs == "javascript:void"
Tab == "<0x09>"
Nul == "<0x00>"
TJsHead == "java"
TJsTail == "script:void"

Tokens == {Word, Blank, Tab, Nul, Ctl, TInj, TSsrf, TScript, TJs, TJsHead, TJsTail}

\* String.length of each token
TokenLen(tok) ==
    CASE tok = Word -> 8
      [] tok = Blank -> 1
      [] tok = Ctl -> 1
      [] tok = TInj -> 32
      [] tok = TSsrf -> 22
      [] tok = TScript -> 25
      [] tok = TJs -> 15
      [] tok = Tab -> 1
      [] tok = Nul -> 1
      [] tok = TJsHead -> 4
      [] tok = TJsTail -> 11

RECURSIVE StrLen(_)
StrLen(text) ==
    IF text = <<>> THEN 0 ELSE TokenLen(Head(text)) + StrLen(Tail(text))

\* the index (in characters, from 0) at which token i of text starts
StartOf(text, i) == StrLen(SubSeq(text, 1, i - 1))

\* the string a token text spells, in tokens a pattern can match: "java"
\* followed at once by "script:void" spells "javascript:void"
RECURSIVE Canon(_)
Canon(text) ==
    IF Len(text) < 2 THEN text
    ELSE IF text[1] = TJsHead /\ text[2] = TJsTail
         THEN <<TJs>> \o Canon(SubSeq(text, 3, Len(text)))
         ELSE <<Head(text)>> \o Canon(Tail(text))

(* A regular expression is given by the tokens it matches: for each token  *)
(* the length of the match found at the token's start, 0 for no match.     *)
NoMatch == [tok \in Tokens |-> 0]
Matching(tok, len) == [t \in Tokens |-> IF t = tok THEN len ELSE 0]

DANGEROUS_PATTERNS ==
    << Matching(TInj, 32),    \* ignore\s+(all\s+)?(previous|above|prior)\s+(instructions?|...)
       NoMatch,               \* disregard ...
       NoMatch,               \* forget ...
       NoMatch,               \* new\s+(instructions?|prompts?|commands?|task)
       NoMatch,               \* system\s*:\s*
       NoMatch,               \* role\s*:\s*system
       NoMatch,               \* \[system\]
       Matching(TScript, 8),  \* <\s*script[^>]*>
       Matching(TJs, 11),     \* javascript\s*:
       NoMatch,               \* on(load|error|click|mouse)
       NoMatch,               \* eval\s*\(
       NoMatch,               \* document\s*\.
       NoMatch >>             \* window\s*\.

SSRF_PATTERNS ==
    << Matching(TSsrf, 16),   \* https?:\/\/(localhost|127\.0\.0\.1|0\.0\.0\.0)
       NoMatch,               \* https?:\/\/192\.168\.\d+\.\d+
       NoMatch,               \* https?:\/\/10\.\d+\.\d+\.\d+
       NoMatch,               \* https?:\/\/172\.(1[6-9]|2[0-9]|3[0-1])\.\d+\.\d+
       NoMatch,               \* file:\/\/
       NoMatch,               \* ftp:\/\/
       NoMatch >>             \* @[^/]+

XSS_PATTERNS ==
    << Matching(TScript, 25), \* <script[^>]*>.*?<\/script>
       NoMatch,               \* <iframe[^>]*>
       NoMatch,               \* <object[^>]*>
       NoMatch,               \* <embed[^>]*>
       NoMatch,               \* <link[^>]*>
       Matching(TJs, 11),     \* javascript:
       NoMatch >>             \* on\w+\s*=

InjectionLabel == "Potential prompt injection detected"
SsrfLabel == "Suspicious URL pattern detected"
XssLabel == "Potential XSS pattern detected"

FreshLastIndex ==
    [ inj  |-> [k \in 1..Len(DANGEROUS_PATTERNS) |-> 0],
      ssrf |-> [k \in 1..Len(SSRF_PATTERNS) |-> 0],
      xss  |-> [k \in 1..Len(XSS_PATTERNS) |-> 0] ]

\* a mutant: the search always starts at index 0 (a regular expression without /g)
RegExpTest_fromStart(pattern, text, from) ==
    LET str == Canon(text)
        hits == {i \in 1..Len(str) : pattern[str[i]] > 0}
    IN
    IF hits = {}
    THEN [found |-> FALSE, lastIndex |-> 0]
    ELSE LET i == CHOOSE h \in hits : \A g \in hits : h <= g
         IN [found |-> TRUE, lastIndex |-> StartOf(str, i) + pattern[str[i]]]

(* RegExp.prototype.test of a /g regular expression whose lastIndex is     *)
(* `from`: the search starts at `from`; a match leaves lastIndex at the    *)
(* match's end, a failure resets it to 0.                                  *)
RegExpTest(pattern, text, from) ==
    LET str == Canon(text)
        hits == {i \in 1..Len(str) :
                    pattern[str[i]] > 0 /\ StartOf(str, i) >= from}
    IN
    IF hits = {}
    THEN [found |-> FALSE, lastIndex |-> 0]
    ELSE LET i == CHOOSE h \in hits : \A g \in hits : h <= g
         IN [found |-> TRUE, lastIndex |-> StartOf(str, i) + pattern[str[i]]]

\* for (const pattern of patterns) { if (pattern.test(input)) { ...; break } }
RECURSIVE ScanFamily(_, _, _, _)
ScanFamily(patterns, li, text, k) ==
    IF k > Len(patterns)
    THEN [hit |-> FALSE, li |-> li]
    ELSE LET r == RegExpTest(patterns[k], text, li[k])
             li2 == [li EXCEPT ![k] = r.lastIndex]
         IN IF r.found
            THEN [hit |-> TRUE, li |-> li2]
            ELSE ScanFamily(patterns, li2, text, k + 1)

(* detectThreats(input) with the regular expressions' lastIndex values li. *)
(* input is a prompt value [kind, text, pad]; the result carries the       *)
(* lastIndex values the call leaves behind.                                *)
detectThreats(li, input) ==
    IF input.kind # "string" \/ (input.text = <<>> /\ input.pad = 0)
    THEN [threats |-> <<>>, li |-> li]
    ELSE LET a == ScanFamily(DANGEROUS_PATTERNS, li.inj, input.text, 1)
             b == ScanFamily(SSRF_PATTERNS, li.ssrf, input.text, 1)
             c == ScanFamily(XSS_PATTERNS, li.xss, input.text, 1)
         IN [ threats |->
                  (IF a.hit THEN <<InjectionLabel>> ELSE <<>>)
                  \o (IF b.hit THEN <<SsrfLabel>> ELSE <<>>)
                  \o (IF c.hit THEN <<XssLabel>> ELSE <<>>),
              li |-> [inj |-> a.li, ssrf |-> b.li, xss |-> c.li] ]

----------------------------------------------------------------------------
(* Sanitizer *)

\* \s : the blank, and tab or newline
IsSpace(tok) == tok \in {Blank, Tab}
\* [\x00-\x08\x0B-\x0C\x0E-\x1F\x7F] : the null byte and the other control characters
IsControl(tok) == tok \in {Nul, Ctl}

RECURSIVE TrimLeft(_)
TrimLeft(text) ==
    IF text # <<>> /\ IsSpace(Head(text)) THEN TrimLeft(Tail(text)) ELSE text

RECURSIVE TrimRight(_)
TrimRight(text) ==
    IF text # <<>> /\ IsSpace(text[Len(text)])
    THEN TrimRight(SubSeq(text, 1, Len(text) - 1))
    ELSE text

\* replace(/\s+/g, ' ')
RECURSIVE CollapseSpaces(_)
CollapseSpaces(text) ==
    IF text = <<>> THEN <<>>
    ELSE IF IsSpace(Head(text))
         THEN IF Tail(text) # <<>> /\ IsSpace(Head(Tail(text)))
              THEN CollapseSpaces(Tail(text))
              ELSE <<Blank>> \o CollapseSpaces(Tail(text))
         ELSE <<Head(text)>> \o CollapseSpaces(Tail(text))

\* replace(/\0/g, '')
RECURSIVE RemoveNull(_)
RemoveNull(text) ==
    IF text = <<>> THEN <<>>
    ELSE IF Head(text) = Nul
         THEN RemoveNull(Tail(text))
         ELSE <<Head(text)>> \o RemoveNull(Tail(text))

\* replace(/[\x00-\x08\x0B-\x0C\x0E-\x1F\x7F]/g, '')
RECURSIVE RemoveControl(_)
RemoveControl(text) ==
    IF text = <<>> THEN <<>>
    ELSE IF IsControl(Head(text))
         THEN RemoveControl(Tail(text))
         ELSE <<Head(text)>> \o RemoveControl(Tail(text))

\* sanitizePromptInput on the token text of a string
sanitizePromptInput(text) ==
    RemoveControl(RemoveNull(CollapseSpaces(TrimRight(TrimLeft(text)))))

----------------------------------------------------------------------------
(* Validators *)

\* a prompt value: kind "undefined", "null", "nonstring" (a number, a boolean,
\* an object) or "string"; a string is its token text followed by pad filler
\* letters
Str(text, pad) == [kind |-> "string", text |-> text, pad |-> pad]
NotAString(kind) == [kind |-> kind, text |-> <<>>, pad |-> 0]
PromptLength(p) == StrLen(p.text) + p.pad

\* the call ends in a TypeError instead of a result
Threw == [threw |-> TRUE, valid |-> FALSE, reason |-> "TypeError"]

\* payload is a value described by what JSON.stringify makes of it: json is
\* "undefined" when it yields undefined (the value undefined, a function),
\* else serLen is the length of the text; undefined.length throws
validatePayloadSize(payload) ==
    IF payload.json = "undefined"
    THEN Threw
    ELSE [ threw |-> FALSE,
           valid |-> ~(payload.serLen > RATE_LIMIT_CONFIG.maxPayloadSize),
           size |-> payload.serLen, reason |-> NoReason ]

\* a mutant: no upper bound on the prompt length
validatePromptLength_noUpperBound(prompt) ==
    LET length == PromptLength(prompt) IN
    IF prompt.kind \in {"undefined", "null"}
    THEN Threw
    ELSE IF prompt.kind = "nonstring"
    THEN [threw |-> FALSE, valid |-> TRUE, length |-> 0, reason |-> NoReason]
    ELSE IF length < MinPromptLength
    THEN [threw |-> FALSE, valid |-> FALSE, length |-> length, reason |-> "Prompt too short"]
    ELSE [threw |-> FALSE, valid |-> TRUE, length |-> length, reason |-> NoReason]

\* prompt.length throws for undefined and null, and is undefined for a
\* number, a boolean or an object: both comparisons are then false
validatePromptLength(prompt) ==
    LET length == PromptLength(prompt) IN
    IF prompt.kind \in {"undefined", "null"}
    THEN Threw
    ELSE IF prompt.kind = "nonstring"
    THEN [threw |-> FALSE, valid |-> TRUE, length |-> 0, reason |-> NoReason]
    ELSE IF length > RATE_LIMIT_CONFIG.maxPromptLength
    THEN [threw |-> FALSE, valid |-> FALSE, length |-> length, reason |-> "Prompt too long"]
    ELSE IF length < MinPromptLength
    THEN [threw |-> FALSE, valid |-> FALSE, length |-> length, reason |-> "Prompt too short"]
    ELSE [threw |-> FALSE, valid |-> TRUE, length |-> length, reason |-> NoReason]

ValidTypes == {"features", "kpis", "implementation"}

\* type is "undefined", "null", "nonstring", "" or a non-empty string
validateRequestType(type) ==
    IF type \in {"undefined", "null", "nonstring", ""}
    THEN [threw |-> FALSE, valid |-> FALSE, reason |-> "Missing or invalid type parameter"]
    ELSE IF type \notin ValidTypes
    THEN [threw |-> FALSE, valid |-> FALSE, reason |-> "Invalid type"]
    ELSE [threw |-> FALSE, valid |-> TRUE, reason |-> NoReason]

----------------------------------------------------------------------------
(* Credential *)

Null == "null"
Users == {"userA", "userB"}

\* an Authorization header: absent, or a value described by whether it starts
\* with 'Bearer ', the number of dot-separated parts of the token, and what
\* decoding the middle part yields: "undecodable" (atob or JSON.parse throws),
\* "noSub" (an object without a sub claim) or the sub claim
NoHeader == [present |-> FALSE, bearer |-> FALSE, parts |-> 0, payload |-> Null]
Header(bearer, parts, payload) ==
    [present |-> TRUE, bearer |-> bearer, parts |-> parts, payload |-> payload]

\* a mutant: the three-part test is missing
extractUserId_noPartsCheck(authHeader) ==
    IF ~authHeader.present \/ ~authHeader.bearer THEN Null
    ELSE IF authHeader.payload = "undecodable" THEN Null
    ELSE IF authHeader.payload = "noSub" THEN Null
    ELSE authHeader.payload

extractUserId(authHeader) ==
    IF ~authHeader.present \/ ~authHeader.bearer THEN Null
    ELSE IF authHeader.parts # 3 THEN Null
    ELSE IF authHeader.payload = "undecodable" THEN Null
    ELSE IF authHeader.payload = "noSub" THEN Null
    ELSE authHeader.payload

----------------------------------------------------------------------------
(* Requests and responses *)

\* a request body: the length of the raw text, what JSON.parse makes of it
\* ("invalid": it throws; "null"; "object"; "other": an array, string, number
\* or boolean), the length of JSON.stringify of the parsed value, and the
\* type and prompt properties of the parsed value
Body(rawLen, json, serLen, type, prompt) ==
    [rawLen |-> rawLen, json |-> json, serLen |-> serLen, type |-> type, prompt |-> prompt]
NoBody == Body(0, "invalid", 0, "undefined", NotAString("undefined"))

\* a value of the parsed tool-call arguments: an array of n items, a truthy
\* value that is no array (a string, an object), or a falsy one (null, 0, "")
Arr(n) == [kind |-> "array", len |-> n]
Scalar == [kind |-> "scalar", len |-> 0]
Falsy == [kind |-> "falsy", len |-> 0]
NoArgs == [k \in {} |-> Falsy]

\* what the AI gateway sends back: an HTTP status and, for a 2xx status, a body:
\* "notJson", "noToolCall", "badArguments" (arguments that do not parse),
\* "nullArguments" (arguments that parse to null) or "ok" with the tool call's
\* function name and the parsed arguments, a record of top-level keys
Upstream(status, kind, name, args) ==
    [status |-> status, kind |-> kind, name |-> name, args |-> args]
NoUpstream == Upstream(0, "none", "none", NoArgs)

Resp(status, error) ==
    [ status |-> status, error |-> error,
      hasRetryAfter |-> FALSE, retryAfter |-> 0, hasRetryHeader |-> FALSE,
      details |-> <<>>, hasRateHeaders |-> FALSE, remaining |-> 0,
      result |-> NoArgs ]
NoResp == Resp(0, "none")

\* history: the caller's table entry as an arriving request finds it
NoEntry == [has |-> FALSE, count |-> 0, resetAt |-> 0]

NoRl == [allowed |-> FALSE, retryAfter |-> 0, reason |-> NoReason]

Idle ==
    [ pc |-> "idle", hdr |-> NoHeader, body |-> NoBody, userId |-> "anonymous",
      arrivedAt |-> 0, hadAdmit |-> FALSE, prevAdmit |-> 0, before |-> NoEntry,
      later |-> 0, rl |-> NoRl,
      evaluated |-> <<>>, threats |-> <<>>, outbound |-> 0, sanitized |-> <<>>,
      forwarded |-> <<>>,
      fetchAt |-> 0, upstream |-> NoUpstream, log |-> <<>>, resp |-> NoResp ]

Event(userId, eventType) == [userId |-> userId, eventType |-> eventType]

\* return new Response(...) : the invocation ends with this response
Finish(slot, resp) == [slot EXCEPT !.pc = "done", !.resp = resp]

\* logSecurityEvent(...) followed by return new Response(...)
Reject(slot, eventType, resp) ==
    Finish([slot EXCEPT !.log = Append(slot.log, Event(slot.userId, eventType))], resp)

\* the handler's outer catch: the error is logged for an identified caller
\* and answered 500
CatchAll(slot, message) ==
    Finish([slot EXCEPT !.log =
                IF slot.userId # "anonymous"
                THEN Append(slot.log, Event(slot.userId, "invalid_request"))
                ELSE slot.log],
           Resp(500, message))

ToolName(type) ==
    CASE type = "features" -> "generate_features"
      [] type = "kpis" -> "generate_kpis"
      [] type = "implementation" -> "generate_implementation"

RequiredKeys(type) ==
    CASE type = "features" -> {"features"}
      [] type = "kpis" -> {"kpis"}
      [] type = "implementation" -> {"steps", "trackingEvents"}

\* !result.key : the key is absent or its value is falsy
Missing(result, key) == key \notin DOMAIN result \/ result[key].kind = "falsy"

Checked(slot, check) == [slot EXCEPT !.evaluated = Append(slot.evaluated, check)]

----------------------------------------------------------------------------
(* The serve handler, one operator per run between two awaits.  Each takes *)
(* the invocation's slot and yields the slot it leaves, with the shared    *)
(* state it leaves where it changes any.                                   *)

\* from the entry of the handler to await req.text()
HandleArrival(slot0, store, authHeader, body, t) ==
    LET extractedUserId == extractUserId(authHeader)
        slot1 == Checked([slot0 EXCEPT !.hdr = authHeader, !.body = body], "credential")
    IN
    IF extractedUserId = Null
    THEN [ slot |-> Reject(slot1, "invalid_request", Resp(401, "Authentication required")),
           store |-> store, admitted |-> FALSE ]
    ELSE LET rateLimitCheck == checkRateLimit(store, extractedUserId, t)
             slot2 == Checked([slot1 EXCEPT !.userId = extractedUserId,
                                  !.rl = [allowed |-> rateLimitCheck.allowed,
                                          retryAfter |-> rateLimitCheck.retryAfter,
                                          reason |-> rateLimitCheck.reason]],
                              "rateLimit")
         IN
         IF ~rateLimitCheck.allowed
         THEN [ slot |-> Reject(slot2, "rate_limit",
                            [Resp(429, rateLimitCheck.reason) EXCEPT
                                !.hasRetryAfter = TRUE,
                                !.retryAfter = rateLimitCheck.retryAfter,
                                !.hasRetryHeader = TRUE]),
                store |-> rateLimitCheck.store, admitted |-> FALSE ]
         ELSE [ slot |-> [slot2 EXCEPT !.pc = "body"],
                store |-> rateLimitCheck.store, admitted |-> TRUE ]

\* from JSON.parse(rawBody) to await fetch(...)
HandleParsed(s1, li, key, t) ==
    LET body == s1.body
        s2 == Checked(s1, "jsonParse")
        s3 == Checked(s2, "payloadSize")
        s4 == Checked(s3, "type")
        s5 == Checked(s4, "promptPresent")
        s6 == Checked(s5, "promptLength")
        scan == detectThreats(li, body.prompt)
        s7 == [Checked(s6, "threatScan") EXCEPT !.threats = scan.threats]
        sanitizedPrompt == sanitizePromptInput(body.prompt.text)
        userMessage == IF body.type = "implementation"
                       THEN sanitizedPrompt \o <<"REMINDER">>
                       ELSE sanitizedPrompt
    IN
    IF body.json = "invalid"
    THEN [slot |-> Reject(s2, "invalid_request", Resp(400, "Invalid JSON format")), li |-> li]
    ELSE IF ~validatePayloadSize(body).valid
    THEN [slot |-> Reject(s3, "invalid_request", Resp(413, "Payload too large")), li |-> li]
    ELSE IF body.json = "null"
    THEN \* const { prompt, type } = requestBody throws a TypeError
         [slot |-> CatchAll(s3, "Cannot destructure"), li |-> li]
    ELSE IF ~validateRequestType(body.type).valid
    THEN [slot |-> Reject(s4, "invalid_request", Resp(400, validateRequestType(body.type).reason)),
          li |-> li]
    ELSE IF body.prompt.kind # "string" \/ PromptLength(body.prompt) = 0
    THEN [slot |-> Reject(s5, "invalid_request", Resp(400, "Prompt is required and must be a string")),
          li |-> li]
    ELSE IF ~validatePromptLength(body.prompt).valid
    THEN [slot |-> Reject(s6, "invalid_request", Resp(400, validatePromptLength(body.prompt).reason)),
          li |-> li]
    ELSE IF Len(scan.threats) > 0
    THEN [slot |-> Reject(s7, "threat_detected",
                       [Resp(400, "Security threat detected in input") EXCEPT
                           !.details = scan.threats]),
          li |-> scan.li]
    ELSE IF ~key
    THEN [slot |-> CatchAll(s7, "LOVABLE_API_KEY not configured"), li |-> scan.li]
    ELSE [slot |-> [s7 EXCEPT !.pc = "fetch", !.outbound = s7.outbound + 1,
                              !.sanitized = sanitizedPrompt,
                              !.forwarded = userMessage, !.fetchAt = t],
          li |-> scan.li]

\* a mutant: the oversized raw body is logged, but the return is missing
HandleBody_noReturn(slot0, li, key, t) ==
    LET s1 == Checked(slot0, "rawSize") IN
    IF slot0.body.rawLen > RawBodyLimit
    THEN HandleParsed([s1 EXCEPT !.log = Append(s1.log, Event(s1.userId, "invalid_request"))],
                      li, key, t)
    ELSE HandleParsed(s1, li, key, t)

\* from the resumption after await req.text() to await fetch(...)
HandleBody(slot0, li, key, t) ==
    LET s1 == Checked(slot0, "rawSize") IN
    IF slot0.body.rawLen > RawBodyLimit
    THEN [slot |-> Reject(s1, "invalid_request", Resp(413, "Request payload too large (max 50KB)")),
          li |-> li]
    ELSE HandleParsed(s1, li, key, t)

\* fetch resolved with a response: clearTimeout, then await response.text()
\* (status not ok) or await response.json()
HandleResponse(slot0, up) ==
    [slot0 EXCEPT !.upstream = up,
                  !.pc = IF up.status >= 200 /\ up.status <= 299 THEN "json" ELSE "text"]

\* fetch rejected with an error that is not the abort: rethrown to the catch
HandleFetchError(slot0) == CatchAll(slot0, "fetch failed")

\* the 30 s timer fired first: controller.abort(), fetch rejects with AbortError
HandleAbort(slot0) ==
    Reject(slot0, "invalid_request", Resp(504, "Request timeout - operation took too long"))

\* await response.text() or await response.json() rejected: to the catch
BodyError == "error reading a body from connection"
HandleBodyError(slot0) == CatchAll(slot0, BodyError)

\* a mutant: the 402 of the gateway is not told apart from its other errors
HandleErrorText_no402(slot0) ==
    IF slot0.upstream.status = 429
    THEN Finish(slot0, Resp(429, "Rate limit exceeded. Please try again in a moment."))
    ELSE CatchAll(slot0, "AI Gateway error")

\* after await response.text() of a response that is not ok
HandleErrorText(slot0) ==
    IF slot0.upstream.status = 429
    THEN Finish(slot0, Resp(429, "Rate limit exceeded. Please try again in a moment."))
    ELSE IF slot0.upstream.status = 402
    THEN Finish(slot0, Resp(402, "Payment required. Please add credits to your Lovable workspace."))
    ELSE CatchAll(slot0, "AI Gateway error")

\* a mutant: the validation asks for one of the required keys only
HandleJson_anyKey(slot0, store) ==
    LET up == slot0.upstream
        type == slot0.body.type
    IN
    IF up.kind = "notJson" THEN CatchAll(slot0, "Unexpected token")
    ELSE IF up.kind = "noToolCall" THEN CatchAll(slot0, "No structured response from AI")
    ELSE IF up.kind = "badArguments" THEN CatchAll(slot0, "Unexpected token")
    ELSE IF up.kind = "nullArguments"
    THEN CatchAll(slot0, "Cannot read properties of null")
    ELSE IF \A key \in RequiredKeys(type) : Missing(up.args, key)
    THEN CatchAll(slot0, "AI returned wrong structure")
    ELSE Finish([slot0 EXCEPT !.log = Append(slot0.log, Event(slot0.userId, "success"))],
                [Resp(200, "none") EXCEPT
                    !.hasRateHeaders = TRUE,
                    !.remaining = RateLimitRemaining(store, slot0.userId),
                    !.result = up.args])

\* after await response.json(): tool call, arguments, result validation, 200
HandleJson(slot0, store) ==
    LET up == slot0.upstream
        type == slot0.body.type
    IN
    IF up.kind = "notJson" THEN CatchAll(slot0, "Unexpected token")
    ELSE IF up.kind = "noToolCall" THEN CatchAll(slot0, "No structured response from AI")
    ELSE IF up.kind = "badArguments" THEN CatchAll(slot0, "Unexpected token")
    ELSE IF up.kind = "nullArguments"
    THEN \* result.steps, result.kpis, result.features throw a TypeError
         CatchAll(slot0, "Cannot read properties of null")
    ELSE IF \E key \in RequiredKeys(type) : Missing(up.args, key)
    THEN CatchAll(slot0, "AI returned wrong structure")
    ELSE Finish([slot0 EXCEPT !.log = Append(slot0.log, Event(slot0.userId, "success"))],
                [Resp(200, "none") EXCEPT
                    !.hasRateHeaders = TRUE,
                    !.remaining = RateLimitRemaining(store, slot0.userId),
                    !.result = up.args])

----------------------------------------------------------------------------
(* Actions *)

EmptyMap == [k \in {} |-> 0]
\* a direct call: the function, its argument, the result of an earlier call
\* it continues, and its result
Call(fn, arg, first, result) ==
    [fn |-> fn, arg |-> arg, first |-> first, result |-> result]
NoCall == Call("none", <<>>, <<>>, <<>>)
NoObs == [on |-> FALSE, user |-> "none", start |-> 0, count |-> 0, atOpen |-> FALSE]

\* the clock advances by d, up to the horizon max
Tick(d, max) ==
    /\ now + d <= max
    /\ now' = now + d
    /\ UNCHANGED <<rateLimitStore, lastIndex, slots, apiKey, lastAdmit, obs, call>>

\* the observer: once switched on at an admission of a caller, it counts that
\* caller's admissions arriving less than windowMs after the first one
Observe(o, userId, t, opens, watch) ==
    IF o.on
    THEN IF o.user = userId /\ t - o.start < RATE_LIMIT_CONFIG.windowMs
         THEN [o EXCEPT !.count = o.count + 1]
         ELSE o
    ELSE IF watch
         THEN [on |-> TRUE, user |-> userId, start |-> t, count |-> 1, atOpen |-> opens]
         ELSE o

\* a request arrives: credential and rate limit, up to await req.text().
\* With track, the invocation's record keeps the history the properties of
\* the limiter speak of: the arrival time, the caller's latest admission and
\* the caller's table entry as the request finds them; and the invocations of
\* the same caller still under way count it in 'later' when it is admitted.
Arrive(s, authHeader, body, watch, track) ==
    /\ slots[s].pc = "idle"
    /\ LET userId == extractUserId(authHeader)
           known == userId # Null /\ StoreHas(lastAdmit, userId)
           slot0 == IF ~track THEN Idle ELSE
                    [Idle EXCEPT
                        !.arrivedAt = now,
                        !.hadAdmit = known,
                        !.prevAdmit = IF known THEN lastAdmit[userId] ELSE 0,
                        !.before = IF userId # Null /\ StoreHas(rateLimitStore, userId)
                                   THEN [has |-> TRUE,
                                         count |-> rateLimitStore[userId].count,
                                         resetAt |-> rateLimitStore[userId].resetAt]
                                   ELSE NoEntry]
           r == HandleArrival(slot0, rateLimitStore, authHeader, body, now)
       IN /\ slots' = [x \in DOMAIN slots |->
                        IF x = s THEN r.slot
                        ELSE IF /\ track /\ r.admitted
                                /\ slots[x].pc \in {"body", "fetch", "text", "json"}
                                /\ slots[x].userId = userId
                             THEN [slots[x] EXCEPT !.later = @ + 1]
                             ELSE slots[x]]
          /\ rateLimitStore' = r.store
          /\ lastAdmit' = IF r.admitted THEN StoreSet(lastAdmit, userId, now) ELSE lastAdmit
          /\ obs' = IF r.admitted
                    THEN Observe(obs, userId, now, r.store[userId].count = 1, watch)
                    ELSE obs
    /\ UNCHANGED <<now, lastIndex, apiKey, call>>

\* req.text() resolved: size, parse, validation, threat scan, sanitization, fetch
BodyRead(s) ==
    /\ slots[s].pc = "body"
    /\ LET r == HandleBody(slots[s], lastIndex, apiKey, now)
       IN /\ slots' = [slots EXCEPT ![s] = r.slot]
          /\ lastIndex' = r.li
    /\ UNCHANGED <<now, rateLimitStore, apiKey, lastAdmit, obs, call>>

\* the gateway answers before the timer fires
FetchResponds(s, up) ==
    /\ slots[s].pc = "fetch"
    /\ now - slots[s].fetchAt <= FetchTimeoutMs
    /\ slots' = [slots EXCEPT ![s] = HandleResponse(slots[s], up)]
    /\ UNCHANGED <<now, rateLimitStore, lastIndex, apiKey, lastAdmit, obs, call>>

\* the connection fails before the timer fires
FetchFails(s) ==
    /\ slots[s].pc = "fetch"
    /\ now - slots[s].fetchAt <= FetchTimeoutMs
    /\ slots' = [slots EXCEPT ![s] = HandleFetchError(slots[s])]
    /\ UNCHANGED <<now, rateLimitStore, lastIndex, apiKey, lastAdmit, obs, call>>

\* the timer fires while fetch is pending
FetchAborts(s) ==
    /\ slots[s].pc = "fetch"
    /\ now - slots[s].fetchAt >= FetchTimeoutMs
    /\ slots' = [slots EXCEPT ![s] = HandleAbort(slots[s])]
    /\ UNCHANGED <<now, rateLimitStore, lastIndex, apiKey, lastAdmit, obs, call>>

\* response.text() of an error response resolved
ErrorTextRead(s) ==
    /\ slots[s].pc = "text"
    /\ slots' = [slots EXCEPT ![s] = HandleErrorText(slots[s])]
    /\ UNCHANGED <<now, rateLimitStore, lastIndex, apiKey, lastAdmit, obs, call>>

\* response.json() settled
JsonRead(s) ==
    /\ slots[s].pc = "json"
    /\ slots' = [slots EXCEPT ![s] = HandleJson(slots[s], rateLimitStore)]
    /\ UNCHANGED <<now, rateLimitStore, lastIndex, apiKey, lastAdmit, obs, call>>

\* response.text() or response.json() rejects: the connection broke while
\* the body was read
BodyFails(s) ==
    /\ slots[s].pc \in {"text", "json"}
    /\ slots' = [slots EXCEPT ![s] = HandleBodyError(slots[s])]
    /\ UNCHANGED <<now, rateLimitStore, lastIndex, apiKey, lastAdmit, obs, call>>

\* the response has been sent; the slot serves the next request
Deliver(s) ==
    /\ slots[s].pc = "done"
    /\ slots' = [slots EXCEPT ![s] = Idle]
    /\ UNCHANGED <<now, rateLimitStore, lastIndex, apiKey, lastAdmit, obs, call>>

InitWith(slotIds, keys) ==
    /\ now = 0
    /\ rateLimitStore = EmptyMap
    /\ lastIndex = FreshLastIndex
    /\ slots = [s \in slotIds |-> Idle]
    /\ apiKey \in keys
    /\ lastAdmit = EmptyMap
    /\ obs = NoObs
    /\ call = NoCall

----------------------------------------------------------------------------
(* SpecRL: one caller against the rate limiter.  Every request carries an  *)
(* oversized body, so each invocation ends at the size check.              *)

UserA == Header(TRUE, 3, "userA")
UserB == Header(TRUE, 3, "userB")
GoodPrompt == Str(<<Word, Blank, Word>>, 0)
Oversized == Body(60000, "object", 60000, "features", GoodPrompt)

StepsRL == {1000, 2000}

\* the clock advances between two requests: each invocation of this
\* specification ends within one grain of the clock
TickIdle(d, max) ==
    /\ \A s \in DOMAIN slots : slots[s].pc = "idle"
    /\ Tick(d, max)

InitRL == InitWith({1}, {TRUE})

NextRL ==
    \/ \E d \in StepsRL : TickIdle(d, MaxTime)
    \/ Arrive(1, UserA, Oversized, FALSE, TRUE)
    \/ BodyRead(1)
    \/ Deliver(1)

SpecRL == InitRL /\ [][NextRL]_vars

----------------------------------------------------------------------------
(* SpecRoll: the same caller on a coarser clock, with the observer that    *)
(* counts the admissions inside a rolling interval.                        *)

StepsRoll == {4000}

NextRoll ==
    \/ \E d \in StepsRoll : TickIdle(d, MaxTimeRoll)
    \/ \E w \in BOOLEAN : Arrive(1, UserA, Oversized, w, TRUE)
    \/ BodyRead(1)
    \/ Deliver(1)

SpecRoll == InitRL /\ [][NextRoll]_vars

----------------------------------------------------------------------------
(* SpecGate: two callers and every kind of credential, body and gateway    *)
(* answer, one invocation at a time.                                       *)

HeadersGate ==
    { NoHeader,
      Header(FALSE, 3, "userA"),        \* no 'Bearer ' prefix
      Header(TRUE, 2, "userA"),         \* not a three-part token
      Header(TRUE, 3, "undecodable"),
      Header(TRUE, 3, "noSub"),
      UserA, UserB }

Obj(type, prompt) ==
    Body(PromptLength(prompt) + 40, "object", PromptLength(prompt) + 40, type, prompt)

BodiesGate ==
    { Body(60000, "object", 60000, "bogus", GoodPrompt),   \* oversized, invalid type
      Body(60000, "object", 57, "features", GoodPrompt),   \* oversized by white space
      Body(20, "invalid", 0, "undefined", NotAString("undefined")),
      Body(50000, "object", 50001, "features", GoodPrompt),
      Body(4, "null", 4, "undefined", NotAString("undefined")),
      Body(2, "other", 2, "undefined", NotAString("undefined")),
      Obj("bogus", Str(<<TInj>>, 0)),                       \* invalid type, threat
      Obj("undefined", GoodPrompt),
      Obj("features", NotAString("undefined")),
      Obj("features", NotAString("nonstring")),
      Obj("features", Str(<<>>, 0)),
      Obj("features", Str(<<Word>>, 0)),                    \* 8 characters
      Obj("features", Str(<<Word>>, 4993)),                 \* 5001 characters
      Obj("features", Str(<<TInj>>, 0)),
      Obj("kpis", Str(<<Word, Blank, TSsrf>>, 0)),
      Obj("features", Str(<<TScript>>, 0)),
      Obj("features", GoodPrompt),
      Obj("implementation", Str(<<Blank, Word, Ctl, Blank, Blank, Word>>, 0)) }

UpstreamsGate ==
    { Upstream(200, "ok", "generate_features", [features |-> Arr(3)]),
      Upstream(200, "ok", "generate_kpis", [kpis |-> Arr(6)]),
      Upstream(200, "noToolCall", "none", NoArgs),
      Upstream(429, "none", "none", NoArgs),
      Upstream(500, "none", "none", NoArgs) }

StepsGate == {2000}

InitGate == InitWith({1}, BOOLEAN)

NextGate ==
    \/ \E d \in StepsGate : Tick(d, MaxTimeGate)
    \/ \E h \in HeadersGate, b \in BodiesGate : Arrive(1, h, b, FALSE, TRUE)
    \/ BodyRead(1)
    \/ \E up \in UpstreamsGate : FetchResponds(1, up)
    \/ FetchFails(1)
    \/ ErrorTextRead(1)
    \/ JsonRead(1)
    \/ Deliver(1)

SpecGate == InitGate /\ [][NextGate]_vars

----------------------------------------------------------------------------
(* SpecConc: invocations of one caller running concurrently; the clock     *)
(* advances at any point of an invocation.                                 *)

GoodBody == Obj("features", GoodPrompt)
StepsConc == {2000}
SlotsConc == {1, 2}

InitConc == InitWith(SlotsConc, {TRUE})

NextConc ==
    \/ \E d \in StepsConc : Tick(d, MaxTimeConc)
    \/ \E s \in SlotsConc :
          \/ Arrive(s, UserA, GoodBody, FALSE, FALSE)
          \/ BodyRead(s)
          \/ FetchResponds(s, Upstream(200, "ok", "generate_features", [features |-> Arr(3)]))
          \/ JsonRead(s)
          \/ Deliver(s)

SpecConc == InitConc /\ [][NextConc]_vars

----------------------------------------------------------------------------
(* SpecHdr: two callers and two invocations running concurrently, every    *)
(* request valid and every answer of the gateway a success; the record of  *)
(* an invocation keeps its history.                                        *)

StepsHdr == {2000}
SlotsHdr == {1, 2}
OkFeatures == Upstream(200, "ok", "generate_features", [features |-> Arr(3)])

InitHdr == InitWith(SlotsHdr, {TRUE})

NextHdr ==
    \/ \E d \in StepsHdr : Tick(d, MaxTimeHdr)
    \/ \E s \in SlotsHdr :
          \/ \E h \in {UserA, UserB} : Arrive(s, h, GoodBody, FALSE, TRUE)
          \/ BodyRead(s)
          \/ FetchResponds(s, OkFeatures)
          \/ JsonRead(s)
          \/ Deliver(s)

SpecHdr == InitHdr /\ [][NextHdr]_vars

----------------------------------------------------------------------------
(* SpecUp: one caller whose requests pass the gate, against every kind of  *)
(* answer of the AI gateway: a status, a tool call with its arguments, a   *)
(* broken connection, a body that never comes, and no answer before the    *)
(* 30 s timer.                                                             *)

BodiesUp ==
    { Obj("features", GoodPrompt), Obj("kpis", GoodPrompt),
      Obj("implementation", GoodPrompt) }

UpstreamsUp ==
    { Upstream(200, "ok", "generate_features", [features |-> Arr(3)]),
      Upstream(200, "ok", "generate_features", [features |-> Arr(2)]),
      Upstream(200, "ok", "generate_features", [features |-> Scalar]),
      Upstream(200, "ok", "generate_features", [features |-> Falsy]),
      Upstream(200, "ok", "generate_kpis", [kpis |-> Arr(6)]),
      Upstream(200, "ok", "generate_kpis", [features |-> Arr(3)]),
      Upstream(200, "ok", "generate_implementation",
               [steps |-> Arr(4), trackingEvents |-> Arr(4)]),
      Upstream(200, "ok", "generate_implementation", [steps |-> Arr(4)]),
      Upstream(200, "ok", "generate_implementation", [kpis |-> Arr(6)]),
      Upstream(200, "nullArguments", "generate_features", NoArgs),
      Upstream(200, "badArguments", "generate_features", NoArgs),
      Upstream(200, "noToolCall", "none", NoArgs),
      Upstream(200, "notJson", "none", NoArgs),
      Upstream(429, "none", "none", NoArgs),
      Upstream(402, "none", "none", NoArgs),
      Upstream(500, "none", "none", NoArgs),
      Upstream(503, "none", "none", NoArgs) }

StepsUp == {15000}

InitUp == InitWith({1}, {TRUE})

NextUp ==
    \/ \E d \in StepsUp : Tick(d, MaxTimeUp)
    \/ \E b \in BodiesUp : Arrive(1, UserA, b, FALSE, TRUE)
    \/ BodyRead(1)
    \/ \E up \in UpstreamsUp : FetchResponds(1, up)
    \/ FetchFails(1)
    \/ FetchAborts(1)
    \/ ErrorTextRead(1)
    \/ JsonRead(1)
    \/ BodyFails(1)
    \/ Deliver(1)

SpecUp == InitUp /\ [][NextUp]_vars

----------------------------------------------------------------------------
(* SpecLive: SpecUp on a clock that honours the timer.  Time does not pass *)
(* a due timer, and a request's body is read early enough for its timer    *)
(* to fall within the horizon.  The clock, the timer callback and the      *)
(* delivery of a finished response are fair; whatever the gateway does     *)
(* (answering, breaking the connection, sending a body) is not.            *)

\* setTimeout(() => controller.abort(), 30000) of a pending fetch is due
TimerDue ==
    \E s \in DOMAIN slots :
        slots[s].pc = "fetch" /\ now - slots[s].fetchAt >= FetchTimeoutMs

TickTimed(d, max) == ~TimerDue /\ Tick(d, max)

NextLive ==
    \/ \E d \in StepsUp : TickTimed(d, MaxTimeLive)
    \/ \E b \in BodiesUp : Arrive(1, UserA, b, FALSE, TRUE)
    \/ (now + FetchTimeoutMs <= MaxTimeLive /\ BodyRead(1))
    \/ \E up \in UpstreamsUp : FetchResponds(1, up)
    \/ FetchFails(1)
    \/ FetchAborts(1)
    \/ ErrorTextRead(1)
    \/ JsonRead(1)
    \/ BodyFails(1)
    \/ Deliver(1)

SpecLive ==
    /\ InitUp
    /\ [][NextLive]_vars
    /\ WF_vars(\E d \in StepsUp : TickTimed(d, MaxTimeLive))
    /\ WF_vars(FetchAborts(1))
    /\ WF_vars(Deliver(1))

----------------------------------------------------------------------------
(* SpecPrompt: one caller whose requests carry prompts at the edges of the *)
(* length check, the threat scan and the sanitizer.                        *)

TenBlanks == [i \in 1..10 |-> Blank]

BodiesPrompt ==
    { Obj("features", Str(<<Word>>, 5992)),                  \* 6000 characters
      Obj("features", Str(<<Word>>, 4992)),                  \* 5000 characters
      Obj("features", Str(<<TJsHead, Ctl, TJsTail>>, 0)),    \* java<0x01>script:void
      Obj("features", Str(<<TJsHead, Nul, TJsTail>>, 0)),
      Obj("features", Str(<<TJs>>, 0)),
      Obj("kpis", Str(<<Word, Ctl, Ctl>>, 0)),               \* 10 characters, 8 printable
      Obj("kpis", Str(TenBlanks, 0)),
      Obj("implementation", Str(<<Blank, Word, Tab, Blank, Word, Ctl, Word>>, 0)),
      Obj("features", GoodPrompt) }

UpstreamsPrompt == {OkFeatures, Upstream(500, "none", "none", NoArgs)}

StepsPrompt == {2000}

InitPrompt == InitWith({1}, {TRUE})

NextPrompt ==
    \/ \E d \in StepsPrompt : Tick(d, MaxTimePrompt)
    \/ \E b \in BodiesPrompt : Arrive(1, UserA, b, FALSE, TRUE)
    \/ BodyRead(1)
    \/ \E up \in UpstreamsPrompt : FetchResponds(1, up)
    \/ ErrorTextRead(1)
    \/ JsonRead(1)
    \/ Deliver(1)

SpecPrompt == InitPrompt /\ [][NextPrompt]_vars

----------------------------------------------------------------------------
(* SpecPure: the exported sanitizer and validators called directly, on     *)
(* every text of up to MaxLenPure characters over letters, white space,    *)
(* the null byte and a control character, and on every kind of value.      *)

AlphabetPure == {Word, Blank, Tab, Nul, Ctl}
TextsPure == UNION {[1..k -> AlphabetPure] : k \in 0..MaxLenPure}

PayloadsPure ==
    { [json |-> "undefined", serLen |-> 0],
      [json |-> "null", serLen |-> 4],
      [json |-> "other", serLen |-> 2],
      [json |-> "object", serLen |-> 57],
      [json |-> "object", serLen |-> 50000],
      [json |-> "object", serLen |-> 50001] }

PromptsPure ==
    { NotAString("undefined"), NotAString("null"), NotAString("nonstring"),
      Str(<<>>, 0), Str(<<Word>>, 0), Str(<<Word>>, 2), GoodPrompt,
      Str(<<Word>>, 4992), Str(<<Word>>, 4993) }

TypesPure ==
    {"undefined", "null", "nonstring", "", "bogus", "features", "kpis", "implementation"}

CallOnly == UNCHANGED <<now, rateLimitStore, lastIndex, slots, apiKey, lastAdmit, obs>>

\* sanitizePromptInput(x)
CallSanitize(x) ==
    /\ call.fn = "none"
    /\ call' = Call("sanitizePromptInput", x, <<>>, sanitizePromptInput(x))
    /\ CallOnly

\* sanitizePromptInput applied to the result of the call before
CallSanitizeAgain ==
    /\ call.fn = "sanitizePromptInput"
    /\ call' = Call("sanitizePromptInput twice", call.arg, call.result,
                    sanitizePromptInput(call.result))
    /\ CallOnly

CallValidatePayloadSize(payload) ==
    /\ call.fn = "none"
    /\ call' = Call("validatePayloadSize", payload, <<>>, validatePayloadSize(payload))
    /\ CallOnly

CallValidatePromptLength(prompt) ==
    /\ call.fn = "none"
    /\ call' = Call("validatePromptLength", prompt, <<>>, validatePromptLength(prompt))
    /\ CallOnly

CallValidateRequestType(type) ==
    /\ call.fn = "none"
    /\ call' = Call("validateRequestType", type, <<>>, validateRequestType(type))
    /\ CallOnly

\* the caller is done with the result
CallReturn ==
    /\ call.fn # "none"
    /\ call' = NoCall
    /\ CallOnly

InitPure == InitWith({1}, {TRUE})

NextPure ==
    \/ \E x \in TextsPure : CallSanitize(x)
    \/ CallSanitizeAgain
    \/ \E payload \in PayloadsPure : CallValidatePayloadSize(payload)
    \/ \E prompt \in PromptsPure : CallValidatePromptLength(prompt)
    \/ \E type \in TypesPure : CallValidateRequestType(type)
    \/ CallReturn

SpecPure == InitPure /\ [][NextPure]_vars

----------------------------------------------------------------------------
(* SpecHour: checkRateLimit called directly for one caller that keeps      *)
(* sending over several windows: at least one call at every instant of its *)
(* schedule, and 2 s or 4 s from one instant to the next.  An observer     *)
(* counts the admissions of the hour that starts with the first one.       *)

StepsHour == {2000, 4000}

\* the clock advances once the caller has called at the present instant
TickCalled(d, max) ==
    /\ call.fn = "checkRateLimit"
    /\ call.arg.at = now
    /\ Tick(d, max)

\* the observer of the documented hourly limit
ObserveHour(o, userId, t) ==
    IF ~o.on
    THEN [on |-> TRUE, user |-> userId, start |-> t, count |-> 1, atOpen |-> TRUE]
    ELSE IF o.user = userId /\ t - o.start < HourMs
         THEN [o EXCEPT !.count = o.count + 1]
         ELSE o

\* checkRateLimit(userId) at the present instant
CallCheckRateLimit(userId) ==
    LET r == checkRateLimit(rateLimitStore, userId, now) IN
    /\ rateLimitStore' = r.store
    /\ call' = Call("checkRateLimit", [userId |-> userId, at |-> now], <<>>,
                    [allowed |-> r.allowed, retryAfter |-> r.retryAfter,
                     reason |-> r.reason])
    /\ obs' = IF r.allowed THEN ObserveHour(obs, userId, now) ELSE obs
    /\ UNCHANGED <<now, lastIndex, slots, apiKey, lastAdmit>>

InitHour == InitWith({1}, {TRUE})

NextHour ==
    \/ \E d \in StepsHour : TickCalled(d, MaxTimeHour)
    \/ CallCheckRateLimit("userA")

SpecHour == InitHour /\ [][NextHour]_vars

----------------------------------------------------------------------------
(* SpecSweep: checkRateLimit called directly for three callers, with a     *)
(* sweep threshold small enough for the sweep to run, side by side with    *)
(* the limiter whose sweep never runs.  The call record keeps the          *)
(* threshold, the table before the call, and the table and the result of   *)
(* the limiter without sweep.                                              *)

CallersSweep == {"userA", "userB", "userC"}
ThresholdsSweep == {0, 1, 2}
StepsSweep == {30000}

PlainResult(r) == [allowed |-> r.allowed, retryAfter |-> r.retryAfter, reason |-> r.reason]

\* checkRateLimit(userId) of both limiters at the present instant
CallSwept(userId) ==
    LET threshold == call.arg.threshold
        r == checkRateLimitAt(rateLimitStore, userId, now, threshold)
        plain == checkRateLimit(call.first.shadow, userId, now)
    IN
    /\ rateLimitStore' = r.store
    /\ call' = Call("checkRateLimit swept",
                    [userId |-> userId, at |-> now, threshold |-> threshold],
                    [shadow |-> plain.store, before |-> rateLimitStore,
                     plain |-> PlainResult(plain)],
                    PlainResult(r))
    /\ UNCHANGED <<now, lastIndex, slots, apiKey, lastAdmit, obs>>

InitSweep ==
    /\ now = 0
    /\ rateLimitStore = EmptyMap
    /\ lastIndex = FreshLastIndex
    /\ slots = [s \in {1} |-> Idle]
    /\ apiKey = TRUE
    /\ lastAdmit = EmptyMap
    /\ obs = NoObs
    /\ \E threshold \in ThresholdsSweep :
          call = Call("none", [userId |-> "none", at |-> 0, threshold |-> threshold],
                      [shadow |-> EmptyMap, before |-> EmptyMap,
                       plain |-> PlainResult(Allowed(EmptyMap))],
                      PlainResult(Allowed(EmptyMap)))

NextSweep ==
    \/ \E d \in StepsSweep : Tick(d, MaxTimeSweep)
    \/ \E userId \in CallersSweep : CallSwept(userId)

SpecSweep == InitSweep /\ [][NextSweep]_vars

----------------------------------------------------------------------------
(* SpecRefund: one caller whose admitted requests end in every way the     *)
(* handler knows: 413 and 400 before the outbound call, 402, 500, 504 and  *)
(* 200 after it.  The observer counts the admissions of the first window,  *)
(* and the call record keeps whether an outbound call was ever issued.     *)

InvalidJson == Body(20, "invalid", 0, "undefined", NotAString("undefined"))

BodiesRefund == {Oversized, InvalidJson, GoodBody}

UpstreamsRefund ==
    {OkFeatures, Upstream(402, "none", "none", NoArgs), Upstream(500, "none", "none", NoArgs)}

StepsRefund == {2000, 30000}

\* BodyRead, with the outbound call recorded when fetch is issued
BodyReadFetch(s) ==
    /\ slots[s].pc = "body"
    /\ LET r == HandleBody(slots[s], lastIndex, apiKey, now)
       IN /\ slots' = [slots EXCEPT ![s] = r.slot]
          /\ lastIndex' = r.li
          /\ call' = IF r.slot.pc = "fetch" THEN Call("fetch", <<>>, <<>>, <<>>) ELSE call
    /\ UNCHANGED <<now, rateLimitStore, apiKey, lastAdmit, obs>>

\* the clock advances between two requests and while the outbound call is
\* pending: the other runs of the handler end within one grain of the clock
TickRefund(d, max) ==
    /\ slots[1].pc \in {"idle", "fetch"}
    /\ Tick(d, max)

InitRefund == InitWith({1}, {TRUE})

NextRefund ==
    \/ \E d \in StepsRefund : TickRefund(d, MaxTimeRefund)
    \/ \E b \in BodiesRefund : Arrive(1, UserA, b, TRUE, FALSE)
    \/ BodyReadFetch(1)
    \/ \E up \in UpstreamsRefund : FetchResponds(1, up)
    \/ FetchFails(1)
    \/ FetchAborts(1)
    \/ ErrorTextRead(1)
    \/ JsonRead(1)
    \/ Deliver(1)

SpecRefund == InitRefund /\ [][NextRefund]_vars

----------------------------------------------------------------------------
(* Properties of the rate limiter *)

\* the invocations whose request reached checkRateLimit
Limited == {s \in DOMAIN slots : Len(slots[s].evaluated) >= 2}
\* ... and was rejected by it
LimiterRejected == {s \in Limited : ~slots[s].rl.allowed}

(* C1, as claimed: in every interval of 60,000 ms, wherever it starts, at  *)
(* most 10 requests of a caller are admitted.  The observer may start its  *)
(* interval at any admission.                                              *)
C1_RollingInterval == obs.on => obs.count <= RATE_LIMIT_CONFIG.maxRequests

(* C1, amended: in every interval of 60,000 ms that starts at the          *)
(* admission opening a window of the limiter (the one that creates or      *)
(* replaces the caller's entry), at most 10 requests of the caller are     *)
(* admitted; an 11th one inside it is rejected.                            *)
C1_FixedWindow ==
    (obs.on /\ obs.atOpen) => obs.count <= RATE_LIMIT_CONFIG.maxRequests

\* ten admissions counted from a window's opening, and a further request
\* inside the interval answered 429
C1_Witness ==
    /\ obs.on /\ obs.atOpen
    /\ obs.count = RATE_LIMIT_CONFIG.maxRequests
    /\ \E s \in LimiterRejected :
          /\ slots[s].userId = obs.user
          /\ slots[s].arrivedAt - obs.start < RATE_LIMIT_CONFIG.windowMs
          /\ slots[s].arrivedAt > slots[s].prevAdmit
          /\ slots[s].resp.status = 429

(* C2: a request arriving less than 2000 ms after the caller's most recent *)
(* admitted request is rejected with the too-frequent reason, never        *)
(* admitted and never given the quota reason.                              *)
C2_MinInterval ==
    \A s \in Limited :
        (slots[s].hadAdmit
            /\ slots[s].arrivedAt - slots[s].prevAdmit < RATE_LIMIT_CONFIG.minRequestInterval)
        => (~slots[s].rl.allowed /\ slots[s].rl.reason = TooFrequent)

\* the requests that find their caller with 10 admitted requests in a window
\* that has not reached its reset time
Eleventh ==
    {s \in Limited :
        /\ slots[s].before.has
        /\ slots[s].before.count = RATE_LIMIT_CONFIG.maxRequests
        /\ slots[s].arrivedAt < slots[s].before.resetAt}

(* C4, as claimed: an 11th request arriving before the window's reset time *)
(* is answered 429 with the quota message, however soon after the 10th.    *)
C4_EleventhQuota ==
    \A s \in Eleventh :
        slots[s].resp.status = 429 /\ slots[s].resp.error = QuotaExceeded

(* C4, amended: an 11th request arriving before the window's reset time is *)
(* answered 429; the message is the quota message when it arrives at least *)
(* 2000 ms after the caller's latest admitted request and the              *)
(* quick-succession message when it arrives sooner.  A request that finds  *)
(* fewer than 10 admitted requests in the window and arrives at least      *)
(* 2000 ms after the latest admitted one is not rejected by the limiter.   *)
C4_EleventhRejected ==
    /\ \A s \in Eleventh :
          /\ slots[s].resp.status = 429
          /\ slots[s].resp.hasRetryAfter
          /\ slots[s].resp.error =
                IF slots[s].arrivedAt - slots[s].prevAdmit
                       >= RATE_LIMIT_CONFIG.minRequestInterval
                THEN QuotaExceeded
                ELSE TooFrequent
    /\ \A s \in Limited :
          ( /\ slots[s].before.has
            /\ slots[s].before.count < RATE_LIMIT_CONFIG.maxRequests
            /\ slots[s].arrivedAt - slots[s].prevAdmit
                   >= RATE_LIMIT_CONFIG.minRequestInterval )
          => (slots[s].rl.allowed /\ slots[s].resp.status # 429)

\* an 11th request answered with the quota message, and (in another state) one
\* answered with the quick-succession message
C4_Witness ==
    \E s \in Eleventh :
        /\ slots[s].pc = "done"
        /\ slots[s].resp.status = 429
        /\ slots[s].resp.error = QuotaExceeded
        /\ slots[s].arrivedAt - slots[s].prevAdmit = 4000

(* C5: every rejection of the limiter carries a retryAfter between 1 and   *)
(* 60, also for a request arriving exactly at the entry's reset time.      *)
C5_RetryAfterRange ==
    \A s \in LimiterRejected :
        slots[s].rl.retryAfter >= 1 /\ slots[s].rl.retryAfter <= 60

----------------------------------------------------------------------------
(* Properties of the gate *)

(* C3: under any interleaving of concurrently running invocations, every   *)
(* entry of the rate-limit table has 1 <= count <= 10.                     *)
C3_CountBounded ==
    \A u \in DOMAIN rateLimitStore :
        /\ rateLimitStore[u].count >= 1
        /\ rateLimitStore[u].count <= RATE_LIMIT_CONFIG.maxRequests

\* the count is 10 while an admitted request of the caller is suspended and
\* another request of the caller has been turned away
C3_Witness ==
    /\ StoreHas(rateLimitStore, "userA")
    /\ rateLimitStore["userA"].count = RATE_LIMIT_CONFIG.maxRequests
    /\ \E s1, s2 \in DOMAIN slots :
          /\ slots[s1].pc \in {"body", "fetch", "json"}
          /\ slots[s1].userId = "userA"
          /\ slots[s2].pc = "done"
          /\ slots[s2].userId = "userA"
          /\ slots[s2].resp.status = 429
          /\ slots[s2].resp.error = QuotaExceeded

GateChecks ==
    << "credential", "rateLimit", "rawSize", "jsonParse", "payloadSize",
       "type", "promptPresent", "promptLength", "threatScan" >>

\* what each check has to decide, read off the request
BadCredential(h) ==
    \/ ~h.present
    \/ ~h.bearer
    \/ h.parts # 3
    \/ h.payload \in {"undecodable", "noSub"}

BadType(b) == b.json # "object" \/ b.type \notin ValidTypes
BadPrompt(b) ==
    b.json # "object" \/ b.prompt.kind # "string" \/ PromptLength(b.prompt) = 0
BadLength(b) == PromptLength(b.prompt) < 10 \/ PromptLength(b.prompt) > 5000

\* the first check, in the order of the gate, that the request of an
\* invocation fails; the limiter's and the scanner's verdicts are the ones
\* the invocation obtained
FirstFailing(slot) ==
    IF BadCredential(slot.hdr) THEN "credential"
    ELSE IF ~slot.rl.allowed THEN "rateLimit"
    ELSE IF slot.body.rawLen > 50000 THEN "rawSize"
    ELSE IF slot.body.json = "invalid" THEN "jsonParse"
    ELSE IF slot.body.serLen > 50000 THEN "payloadSize"
    ELSE IF BadType(slot.body) THEN "type"
    ELSE IF BadPrompt(slot.body) THEN "promptPresent"
    ELSE IF BadLength(slot.body) THEN "promptLength"
    ELSE IF slot.threats # <<>> THEN "threatScan"
    ELSE "none"

IndexOf(check) == CHOOSE i \in 1..Len(GateChecks) : GateChecks[i] = check

\* the response that belongs to a failing check
Belongs(resp, check, slot) ==
    CASE check = "credential" ->
             resp.status = 401 /\ resp.error = "Authentication required"
      [] check = "rateLimit" ->
             resp.status = 429 /\ resp.error = slot.rl.reason
      [] check = "rawSize" ->
             resp.status = 413 /\ resp.error = "Request payload too large (max 50KB)"
      [] check = "jsonParse" ->
             resp.status = 400 /\ resp.error = "Invalid JSON format"
      [] check = "payloadSize" ->
             resp.status = 413 /\ resp.error = "Payload too large"
      [] check = "type" ->
             resp.status = 400
             /\ resp.error \in {"Missing or invalid type parameter", "Invalid type"}
      [] check = "promptPresent" ->
             resp.status = 400 /\ resp.error = "Prompt is required and must be a string"
      [] check = "promptLength" ->
             resp.status = 400 /\ resp.error \in {"Prompt too long", "Prompt too short"}
      [] check = "threatScan" ->
             resp.status = 400 /\ resp.error = "Security threat detected in input"

\* the invocations that are through the gate, one way or the other
Gated == {s \in DOMAIN slots : slots[s].pc \notin {"idle", "body"}}

(* C6: an outbound call is issued only after all nine checks passed; a     *)
(* request answered 401, 413, 400 or 429 by the limiter has caused no      *)
(* outbound call; no request causes more than one outbound call.           *)
C6_OutboundAfterGate ==
    \A s \in DOMAIN slots :
        /\ slots[s].outbound <= 1
        /\ slots[s].outbound = 1 =>
              (FirstFailing(slots[s]) = "none" /\ slots[s].evaluated = GateChecks)
        /\ ( /\ slots[s].pc = "done"
             /\ \/ slots[s].resp.status \in {401, 413, 400}
                \/ (slots[s].resp.status = 429 /\ ~slots[s].rl.allowed) )
           => slots[s].outbound = 0

\* an outbound call in flight, for a request that passed the nine checks
C6_Witness ==
    \E s \in DOMAIN slots :
        /\ slots[s].pc = "fetch"
        /\ slots[s].outbound = 1
        /\ slots[s].evaluated = GateChecks
        /\ slots[s].forwarded = <<Word, Blank, Word>>

(* C7: the checks are evaluated in the fixed order, the response is the    *)
(* one that belongs to the first failing check, and no later check is      *)
(* evaluated.                                                              *)
C7_FirstFailure ==
    \A s \in Gated :
        LET f == FirstFailing(slots[s]) IN
        f # "none" =>
            /\ slots[s].pc = "done"
            /\ Belongs(slots[s].resp, f, slots[s])
            /\ slots[s].evaluated = SubSeq(GateChecks, 1, IndexOf(f))

\* the categories a text triggers: a family is triggered when one of its
\* patterns matches somewhere in the text
Matches(patterns, text) ==
    \E k \in 1..Len(patterns) :
        \E i \in 1..Len(Canon(text)) : patterns[k][Canon(text)[i]] > 0

Triggered(text) ==
    (IF Matches(DANGEROUS_PATTERNS, text) THEN <<InjectionLabel>> ELSE <<>>)
    \o (IF Matches(SSRF_PATTERNS, text) THEN <<SsrfLabel>> ELSE <<>>)
    \o (IF Matches(XSS_PATTERNS, text) THEN <<XssLabel>> ELSE <<>>)

\* the invocations whose prompt went through detectThreats
Scanned == {s \in DOMAIN slots : Len(slots[s].evaluated) = Len(GateChecks)}

(* C8: detectThreats is a pure function of its argument: every call        *)
(* returns the label list that a call with no call before it returns.      *)
C8_ScanPure ==
    \A s \in Scanned :
        slots[s].threats = detectThreats(FreshLastIndex, slots[s].body.prompt).threats

(* C9: after any sequence of earlier requests, a request reaching the      *)
(* threat scan with a prompt that contains a match of a pattern is         *)
(* answered 400 with details naming every triggered category, and its      *)
(* prompt is not forwarded.                                                *)
C9_ThreatRejected ==
    \A s \in Scanned :
        Triggered(slots[s].body.prompt.text) # <<>> =>
            /\ slots[s].pc = "done"
            /\ slots[s].resp.status = 400
            /\ slots[s].resp.details = Triggered(slots[s].body.prompt.text)
            /\ slots[s].outbound = 0
            /\ slots[s].forwarded = <<>>

(* C10: a POST whose Authorization header is absent, lacks the 'Bearer '   *)
(* prefix, is not a three-part token, has an undecodable payload or no     *)
(* subject claim is answered 401 before the limiter is consulted: the      *)
(* rate-limit table is unchanged by it.                                    *)
C10_Unauthenticated ==
    [][ \A s \in DOMAIN slots :
          ( /\ slots[s].pc = "idle"
            /\ slots'[s].pc # "idle"
            /\ BadCredential(slots'[s].hdr) )
          => /\ slots'[s].pc = "done"
             /\ slots'[s].resp.status = 401
             /\ slots'[s].evaluated = <<"credential">>
             /\ rateLimitStore' = rateLimitStore ]_vars

\* a two-part token answered 401 while the table holds entries
C10_Witness ==
    \E s \in DOMAIN slots :
        /\ slots[s].pc = "done"
        /\ slots[s].hdr = Header(TRUE, 2, "userA")
        /\ slots[s].resp.status = 401
        /\ DOMAIN rateLimitStore = Users

----------------------------------------------------------------------------
(* Properties of the request validation and of the dispatcher *)

\* the checks a malformed request fails: the parse, the type, the prompt
MalformedChecks == {"jsonParse", "type", "promptPresent", "promptLength"}

(* C11: a request that passes the credential, rate-limit and size checks   *)
(* but is malformed (not valid JSON, or valid JSON of any kind without a   *)
(* recognised type and a string prompt of 10 to 5000 characters) is        *)
(* answered 400, never 500 and never 200.                                  *)
C11_MalformedIs400 ==
    \A s \in Gated :
        FirstFailing(slots[s]) \in MalformedChecks =>
            /\ slots[s].pc = "done"
            /\ slots[s].resp.status = 400

\* the invocations that have read the gateway's tool call and its arguments
Answered ==
    {s \in DOMAIN slots : slots[s].pc = "done" /\ slots[s].upstream.kind = "ok"}

\* the required keys of the request's type that the arguments do not have
Lacking(slot) == RequiredKeys(slot.body.type) \ DOMAIN slot.upstream.args

(* C12: for every request type and every tool-call result that lacks a     *)
(* required top-level key of the type (features; kpis; steps and           *)
(* trackingEvents), the handler answers 500 and the result is not returned *)
(* to the caller.                                                          *)
C12_MissingKeyIs500 ==
    \A s \in Answered :
        Lacking(slots[s]) # {} =>
            /\ slots[s].resp.status = 500
            /\ slots[s].resp.result = NoArgs

\* an implementation request whose result has steps but no trackingEvents,
\* answered 500
C12_Witness ==
    \E s \in Answered :
        /\ slots[s].body.type = "implementation"
        /\ DOMAIN slots[s].upstream.args = {"steps"}
        /\ slots[s].resp.status = 500
        /\ slots[s].resp.error = "AI returned wrong structure"

(* C13: when the tool invocation of the gateway's answer names a function  *)
(* other than the one selected for the request's type, the request fails   *)
(* with 500 and the payload is not returned, whatever keys its arguments   *)
(* contain.                                                                *)
C13_WrongToolIs500 ==
    \A s \in Answered :
        slots[s].upstream.name # ToolName(slots[s].body.type) =>
            /\ slots[s].resp.status = 500
            /\ slots[s].resp.result = NoArgs

\* the ToolContract of a type: the shape a result must have
MatchesContract(type, result) ==
    CASE type = "features" ->
             /\ "features" \in DOMAIN result
             /\ result["features"] = Arr(3)
      [] type = "kpis" ->
             /\ "kpis" \in DOMAIN result
             /\ result["kpis"] = Arr(6)
      [] type = "implementation" ->
             /\ {"steps", "trackingEvents"} \subseteq DOMAIN result
             /\ result["steps"] = Arr(4)
             /\ result["trackingEvents"].kind = "array"
             /\ result["trackingEvents"].len >= 4

(* C14: every 200 response body matches the ToolContract of the requested  *)
(* type, whatever the gateway returned: a features array of exactly 3      *)
(* items, a kpis array of exactly 6 items, a steps array of exactly 4      *)
(* items with a trackingEvents array of at least 4 items.                  *)
C14_SuccessMatchesContract ==
    \A s \in DOMAIN slots :
        (slots[s].pc = "done" /\ slots[s].resp.status = 200) =>
            MatchesContract(slots[s].body.type, slots[s].resp.result)

(* C15: every request that passed the gate eventually receives a response, *)
(* whatever the gateway does (never answering, answering late, or sending  *)
(* status and headers and then stalling the body): an outbound call that   *)
(* is under way leads to a finished response.                              *)
C15_EventuallyAnswered ==
    \A s \in {1} : (slots[s].pc = "fetch") ~> (slots[s].pc = "done")

\* the invocations that are finished after reading the gateway's response,
\* status and body
ReadUpstream ==
    { s \in DOMAIN slots :
        /\ slots[s].pc = "done"
        /\ slots[s].outbound = 1
        /\ slots[s].upstream # NoUpstream
        /\ slots[s].resp.error # BodyError }

Is2xx(status) == status >= 200 /\ status <= 299

TransportFailed ==
    { s \in DOMAIN slots :
        /\ slots[s].pc = "done"
        /\ slots[s].outbound = 1
        /\ slots[s].upstream = NoUpstream }

(* C17: every transport-level failure of the outbound call, a network      *)
(* error as well as the 30 s timeout, is answered 504, not the 500 of an   *)
(* upstream HTTP failure.                                                  *)
C17_TransportIs504 ==
    \A s \in TransportFailed : slots[s].resp.status = 504

----------------------------------------------------------------------------
(* Properties of concurrent invocations *)

\* the successful invocations whose request was the first one admitted in
\* its window: it found no entry of its caller, or an expired one
FirstInWindow ==
    { s \in DOMAIN slots :
        /\ slots[s].pc = "done"
        /\ slots[s].resp.status = 200
        /\ (~slots[s].before.has \/ slots[s].arrivedAt > slots[s].before.resetAt) }

OwnEntry(store, userId) == [k \in DOMAIN store \cap {userId} |-> store[k]]

(* C19: the response to a caller's request is determined by that caller's  *)
(* own request history and the gateway's answer to it, not by the requests *)
(* of other callers.  Every step of the gate is compared with the same     *)
(* step of the run without the other callers: there the table holds the    *)
(* caller's own entry only, and at the caller's first admitted request no  *)
(* scan has run before, so the patterns are as constructed.                *)
C19_CallersIndependent ==
    [][ \A s \in DOMAIN slots :
          /\ ( /\ slots[s].pc = "idle"
               /\ slots'[s].pc # "idle"
               /\ slots'[s].userId # "anonymous" )
             => LET alone == HandleArrival(Idle,
                                 OwnEntry(rateLimitStore, slots'[s].userId),
                                 slots'[s].hdr, slots'[s].body, now).slot
                IN /\ alone.pc = slots'[s].pc
                   /\ alone.resp = slots'[s].resp
          /\ ( /\ slots[s].pc = "body"
               /\ slots'[s].pc # "body"
               /\ ~slots[s].hadAdmit )
             => slots'[s] = HandleBody(slots[s], FreshLastIndex, apiKey, now).slot
      ]_vars

----------------------------------------------------------------------------
(* Properties of the audit log *)

EventTypes == {"rate_limit", "invalid_request", "threat_detected", "success"}

(* C20: for every request and every outcome (200, 400, 401, 402, 413, 429  *)
(* of the limiter, 429 of the gateway, 500, 504), logSecurityEvent has     *)
(* been called with the caller identity and an outcome category when the   *)
(* response is returned.                                                   *)
C20_EveryOutcomeLogged ==
    \A s \in DOMAIN slots :
        slots[s].pc = "done" =>
            /\ slots[s].log # <<>>
            /\ slots[s].log[Len(slots[s].log)].userId = slots[s].userId
            /\ slots[s].log[Len(slots[s].log)].eventType \in EventTypes

----------------------------------------------------------------------------
(* Properties of the exported functions *)

(* C21: for every string x over letters, spaces, tab or newline, the null  *)
(* byte and other control characters,                                      *)
(* sanitizePromptInput(sanitizePromptInput(x)) = sanitizePromptInput(x).   *)
C21_SanitizeIdempotent ==
    call.fn = "sanitizePromptInput twice" => call.result = call.first

Validators == {"validatePayloadSize", "validatePromptLength", "validateRequestType"}

(* C22: validatePayloadSize, validatePromptLength and validateRequestType  *)
(* return a result record and never raise, for every input value including *)
(* undefined, null and values that are no strings.                         *)
C22_ValidatorsNeverThrow ==
    call.fn \in Validators => ~call.result.threw

----------------------------------------------------------------------------
(* Properties of the responses *)

(* C23: every response with status 429, whether caused by the limiter or   *)
(* by a 429 of the gateway, carries a Retry-After header and a numeric     *)
(* retryAfter field in its body.                                           *)
C23_RetryAdvice ==
    \A s \in DOMAIN slots :
        (slots[s].pc = "done" /\ slots[s].resp.status = 429) =>
            /\ slots[s].resp.hasRetryHeader
            /\ slots[s].resp.hasRetryAfter

----------------------------------------------------------------------------
(* Properties of the limiter called directly *)

(* C24: for every caller, at most 60 requests are admitted by the rate     *)
(* limiter in any period of one hour: the observer's hour, which starts at *)
(* an admission, never holds more than 60 admissions.                      *)
C24_HourlyLimit ==
    obs.on => obs.count <= HourlyLimit

(* C27: when a caller's request is rejected by the limiter with            *)
(* retryAfter = r, for either reason, and the caller sends no other        *)
(* request in between, the request it sends exactly r seconds after the    *)
(* rejected one is admitted.                                               *)
C27_RetryAdmitted ==
    [][ ( /\ call.fn = "checkRateLimit"
          /\ ~call.result.allowed
          /\ now' = now
          /\ call'.fn = "checkRateLimit"
          /\ call'.arg.userId = call.arg.userId
          /\ call'.arg.at = call.arg.at + call.result.retryAfter * 1000 )
        => call'.result.allowed ]_vars

----------------------------------------------------------------------------
(* Properties of the prompt on its way through the gate *)

\* the invocations whose request has a valid credential, is admitted, has a
\* body within the size limits, a valid type and a string prompt longer
\* than maxPromptLength
LongPrompt ==
    { s \in Gated :
        /\ FirstFailing(slots[s]) = "promptLength"
        /\ PromptLength(slots[s].body.prompt) > RATE_LIMIT_CONFIG.maxPromptLength }

Forwarded == {s \in DOMAIN slots : slots[s].outbound = 1}

\* the sanitized prompt of an invocation, as a prompt value
SanitizedPrompt(slot) == Str(slot.sanitized, slot.body.prompt.pad)

(* C28: for every prompt that is forwarded, a fresh scan of the sanitized  *)
(* prompt reports no threat: the removal of null bytes and control         *)
(* characters after the scan never turns a prompt scanned clean into a     *)
(* text that matches a pattern.                                            *)
C28_SanitizedScansClean ==
    \A s \in Forwarded :
        detectThreats(FreshLastIndex, slots[s].body.prompt).threats = <<>>
            => detectThreats(FreshLastIndex, SanitizedPrompt(slots[s])).threats = <<>>

(* C29: every sanitized prompt forwarded to the gateway still satisfies    *)
(* the length bounds: it is neither empty nor shorter than 10 characters,  *)
(* nor longer than 5000.                                                   *)
C29_SanitizedLength ==
    \A s \in Forwarded :
        /\ PromptLength(SanitizedPrompt(slots[s])) >= MinPromptLength
        /\ PromptLength(SanitizedPrompt(slots[s])) <= RATE_LIMIT_CONFIG.maxPromptLength

\* the callers whose entry a call removed from the table
Removed == DOMAIN call.first.before \ DOMAIN rateLimitStore

\* the entries of other callers that had expired when the call was made
ExpiredOthers ==
    { k \in DOMAIN call.first.before \ {call.arg.userId} :
        call.first.before[k].resetAt < call.arg.at }

(* C26: the sweep is unobservable to admission control.  For every         *)
(* sequence of checkRateLimit calls and every threshold, the limiter with  *)
(* the sweep returns the same allowed, retryAfter and reason as the        *)
(* limiter without it; a sweep removes exactly the entries whose reset     *)
(* time lies before now (the calling caller's own entry is then replaced)  *)
(* and never an unexpired one; and every entry the table still holds is    *)
(* the entry the limiter without sweep holds.                              *)
C26_CleanupUnobservable ==
    call.fn = "checkRateLimit swept" =>
        /\ call.result = call.first.plain
        /\ Removed = IF Cardinality(DOMAIN call.first.before) > call.arg.threshold
                     THEN ExpiredOthers
                     ELSE {}
        /\ DOMAIN rateLimitStore \subseteq DOMAIN call.first.shadow
        /\ \A k \in DOMAIN rateLimitStore : rateLimitStore[k] = call.first.shadow[k]

\* a call of a caller whose own expired entry was among the swept ones,
\* with another caller's expired entry removed and an unexpired one kept
C26_Witness ==
    /\ call.fn = "checkRateLimit swept"
    /\ call.arg.userId \in DOMAIN call.first.before
    /\ call.first.before[call.arg.userId].resetAt < call.arg.at
    /\ Cardinality(DOMAIN call.first.before) > call.arg.threshold
    /\ Removed # {}
    /\ \E k \in DOMAIN rateLimitStore \ {call.arg.userId} :
          call.first.before[k].resetAt >= call.arg.at
    /\ call.result.allowed

\* the step is the admission of a request of the one caller
AdmittedStep == slots[1].pc = "idle" /\ slots'[1].pc = "body"

(* C30: every request the limiter admits counts toward the caller's quota  *)
(* and restarts the 2-second interval, and nothing that happens afterwards *)
(* gives it back.  The step that admits a request leaves the caller's      *)
(* entry with lastRequest = now and with the count one higher (1 when the  *)
(* window opens), so that a request of the same window less than 2 s      *)
(* later is rejected; every other step of the handler (a rejection by the      *)
(* limiter, 413, 400, the outbound call, 402, 500, 504, 200, the delivery) *)
(* leaves the table as it is; and while the first window runs the entry's  *)
(* count is the number of requests the limiter admitted in it.             *)
C30_NoRefund ==
    [][ /\ IF AdmittedStep
           THEN /\ StoreHas(rateLimitStore', "userA")
                /\ rateLimitStore'["userA"].lastRequest = now
                /\ rateLimitStore'["userA"].count =
                       IF /\ StoreHas(rateLimitStore, "userA")
                          /\ now <= rateLimitStore["userA"].resetAt
                       THEN rateLimitStore["userA"].count + 1
                       ELSE 1
                /\ (now + RATE_LIMIT_CONFIG.minRequestInterval - 1
                        <= rateLimitStore'["userA"].resetAt)
                      => ~checkRateLimit(rateLimitStore', "userA",
                            now + RATE_LIMIT_CONFIG.minRequestInterval - 1).allowed
           ELSE rateLimitStore' = rateLimitStore
        /\ (obs'.on /\ now' - obs'.start < RATE_LIMIT_CONFIG.windowMs)
              => rateLimitStore'[obs'.user].count = obs'.count
      ]_vars

\* the quota is exhausted, the eleventh request of the window is rejected,
\* and no outbound call has been issued since the start
C30_Witness ==
    /\ slots[1].pc = "done"
    /\ slots[1].resp.status = 429
    /\ slots[1].rl.reason = QuotaExceeded
    /\ obs.on /\ obs.count = RATE_LIMIT_CONFIG.maxRequests
    /\ now - obs.start < RATE_LIMIT_CONFIG.windowMs
    /\ rateLimitStore["userA"].count = RATE_LIMIT_CONFIG.maxRequests
    /\ call.fn = "none"

====
